---- MODULE Spec2Model ----
(***************************************************************************)
(* ResponseAnalyzer of rank_llm/analysis/response_analysis_verbose.py.     *)
(*                                                                         *)
(*   Spec        count_errors, called twice by a caller on the same batch  *)
(*               (the second call on a reordering of it).                  *)
(*   SpecPrompt  _get_num_passages on one prompt.                          *)
(*   SpecRead    read_saved_responses over the stored records, calling     *)
(*               _get_num_passages for each.                               *)
(*                                                                         *)
(* A string is a sequence of characters, a character a one-element string  *)
(* of TLA+.  Percentages are integers counting hundredths (2500 = 25.0).   *)
(***************************************************************************)
EXTENDS Integers, Sequences, FiniteSets, TLC

VARIABLES
    \* count_errors
    responses,              \* argument: the response strings
    num_passages,           \* argument: the expected count of each response
    verbose,                \* argument
    stats_dict,             \* the four running counts
    normalized_stats_dict,  \* the returned report, NoReport until returned
    idx,                    \* position of the for loop in zip(responses, num_passages)
    pc,                     \* "idle", "loop", "returned", "raised"
    exc,                    \* the exception that left count_errors, or "none"
    stdout,                 \* what print() wrote during the current call
    call,                   \* which of the caller's two calls this is, 0 before them
    first,                  \* what the caller keeps of its first call
    \* _get_num_passages
    prompt,                 \* argument
    search_text,            \* local
    msg_i,                  \* position of the for loop over the messages
    gpc,                    \* "idle", "entry", "search", "returned", "raised"
    gret,                   \* the returned integer, None until returned
    gexc,                   \* the exception raised, or "none"
    \* read_saved_responses
    runs,                   \* the exec_info records of the files, in reading order
    cursor,                 \* position of the loops in runs
    r_responses,            \* local list responses
    r_num_passages,         \* local list num_passages
    rpc,                    \* "idle", "append", "extract", "returned", "raised"
    rret,                   \* the returned pair, None until returned
    rexc                    \* the exception that left read_saved_responses

cvars == <<responses, num_passages, verbose, stats_dict, normalized_stats_dict,
           idx, pc, exc, stdout, call, first>>
gvars == <<prompt, search_text, msg_i, gpc, gret, gexc>>
rvars == <<runs, cursor, r_responses, r_num_passages, rpc, rret, rexc>>
vars == <<cvars, gvars, rvars>>

None == "None"
NoReport == "NoReport"

\* ---------------------------------------------------------------- bounds
MaxPieces == 3
MaxK == 3
MaxBatch == 3
MaxLen == 6
MaxRuns == 3

\* ------------------------------------------------------------ characters
\* "sup2" stands for a character such as U+00B2: str.isdigit() is true of it
\* and int() rejects it.  "a" stands for every character the gate rejects.
Chars == {"0", "1", "2", "sup2", "[", "]", ">", " ", "a"}

IsDigit(c) == c \in {"0", "1", "2", "sup2"}

IsDecimal(c) == c \in {"0", "1", "2"}

DigitVal(c) == CASE c = "0" -> 0 [] c = "1" -> 1 [] c = "2" -> 2

Sep == <<"]", " ", ">", " ", "[">>

SetMin(S) == CHOOSE x \in S : \A y \in S : x <= y

\* ------------------------------------------------------- _validate_format
\* mutant: return True one level too deep, so only the first character counts
ValidateFormat_first(response) ==
    IF response = <<>> THEN TRUE
    ELSE LET c == response[1] IN
         ~(~IsDigit(c) /\ c # "[" /\ c # "]" /\ c # ">" /\ c # " ")

ValidateFormat(response) ==
    \A i \in 1..Len(response) :
        LET c == response[i] IN
        ~(~IsDigit(c) /\ c # "[" /\ c # "]" /\ c # ">" /\ c # " ")

\* ------------------------------------------------------------- trimming
\* ScanBegin's value when resp[begin] raises IndexError
NoIndex == -1

\* while not resp[begin].isdigit(): begin += 1   (begin counts from 0)
RECURSIVE ScanBegin(_, _)
ScanBegin(resp, begin) ==
    IF begin >= Len(resp) THEN NoIndex
    ELSE IF IsDigit(resp[begin + 1]) THEN begin
    ELSE ScanBegin(resp, begin + 1)

\* while not resp[len(resp) - end - 1].isdigit(): end += 1
\* (reached only after ScanBegin found a digit, so the index stays >= 0)
RECURSIVE ScanEnd(_, _)
ScanEnd(resp, end) ==
    IF IsDigit(resp[Len(resp) - end]) THEN end
    ELSE ScanEnd(resp, end + 1)

\* resp = resp[begin : len(resp) - end]
Trimmed(resp) ==
    SubSeq(resp, ScanBegin(resp, 0) + 1, Len(resp) - ScanEnd(resp, 0))

\* ----------------------------------------------------------- str.split
MatchesAt(s, i, pat) ==
    /\ i + Len(pat) - 1 <= Len(s)
    /\ SubSeq(s, i, i + Len(pat) - 1) = pat

RECURSIVE Split(_)
Split(s) ==
    LET hits == {i \in 1..Len(s) : MatchesAt(s, i, Sep)} IN
    IF hits = {} THEN <<s>>
    ELSE LET i == SetMin(hits) IN
         <<SubSeq(s, 1, i - 1)>> \o Split(SubSeq(s, i + Len(Sep), Len(s)))

\* ------------------------------------------------------------------ int()
\* ParseInt's value when int() raises ValueError
NotAnInt == -1

RECURSIVE StripLeft(_)
StripLeft(s) ==
    IF s # <<>> /\ Head(s) = " " THEN StripLeft(Tail(s)) ELSE s

RECURSIVE StripRight(_)
StripRight(s) ==
    IF s # <<>> /\ s[Len(s)] = " " THEN StripRight(SubSeq(s, 1, Len(s) - 1)) ELSE s

RECURSIVE Decimal(_)
Decimal(s) ==
    IF s = <<>> THEN 0
    ELSE 10 * Decimal(SubSeq(s, 1, Len(s) - 1)) + DigitVal(s[Len(s)])

\* int(rank): surrounding whitespace is ignored, the rest must be a decimal
\* numeral (no sign or underscore passes the gate)
ParseInt(rank) ==
    LET t == StripRight(StripLeft(rank)) IN
    IF t = <<>> \/ \E i \in 1..Len(t) : ~IsDecimal(t[i]) THEN NotAnInt
    ELSE Decimal(t)

\* ranks = [int(rank) for rank in resp.split("] > [")]
Ranks(resp) ==
    LET toks == Split(Trimmed(resp)) IN [i \in 1..Len(toks) |-> ParseInt(toks[i])]

ParseFails(resp) == \E i \in 1..Len(Ranks(resp)) : Ranks(resp)[i] = NotAnInt

RankSet(ranks) == {ranks[i] : i \in 1..Len(ranks)}

\* ------------------------------------------------- combinatorial checks
\* mutant: the duplicate test is made before the length test
IsMissing_afterdup(ranks, num_passage) ==
    Len(ranks) < num_passage /\ Cardinality({ranks[i] : i \in 1..Len(ranks)}) = Len(ranks)

\* mutant: only the length is compared, duplicates pass
IsRepetition_lenonly(ranks, num_passage) == Len(ranks) > num_passage

\* if len(ranks) < num_passage
IsMissing(ranks, num_passage) == Len(ranks) < num_passage

\* if len(ranks) > num_passage or len(set(ranks)) < num_passage
IsRepetition(ranks, num_passage) ==
    Len(ranks) > num_passage \/ Cardinality(RankSet(ranks)) < num_passage

\* ------------------------------------------------------- normalisation
\* mutant: the percentage is cut to two decimals instead of rounded
Round2_trunc(count, n) == (count * 10000) \div n

\* round((count / n) * 100.0, 2), in hundredths.  An exact tie goes to even;
\* ties need a batch size that is a multiple of 32, where the float product
\* may fall on either side of the tie.
Round2(count, n) ==
    LET q == (count * 10000) \div n
        r == (count * 10000) % n
    IN  IF 2 * r > n THEN q + 1
        ELSE IF 2 * r < n THEN q
        ELSE IF q % 2 = 0 THEN q ELSE q + 1

Keys == {"ok", "wrong_format", "repetition", "missing_documents"}

EmptyStats == [k \in Keys |-> 0]

Normalized(stats, n) == [k \in Keys |-> Round2(stats[k], n)]

Bump(stats, key) == [stats EXCEPT ![key] = @ + 1]

\* what print(resp) writes when the integer parse fails: resp was rebound
\* to the trimmed text on line 85
ParseFailPrinted(resp) == Trimmed(resp)

\* what print(resp) writes at the gate
GateFailPrinted(resp) == resp

\* ------------------------------------------------------------ the inputs
\* the characters of the exhaustive responses ("2" and a lone ">" occur in
\* the sample responses)
RichChars == Chars \ {"2", ">"}

RECURSIVE Pieces(_)
Pieces(n) ==
    IF n = 0 THEN {<<>>}
    ELSE LET P == Pieces(n - 1) IN
         P \cup {p \o f : p \in P, f \in {<<c>> : c \in RichChars} \cup {Sep}}

\* every response of at most MaxPieces pieces, a piece being one character
\* of RichChars or the separator "] > [", with every expected count up to MaxK
RichPairs == Pieces(MaxPieces) \X (0..MaxK)

Canon2(a, b) == <<"[", a>> \o Sep \o <<b, "]">>

\* one response per way through the loop body
SamplePairs ==
    { <<Canon2("2", "1"), 2>>,
      <<Canon2("1", "1"), 2>>,
      <<(<<"[", "1", "]">>), 2>>,
      <<(<<"a", "[", "1", "]">>), 1>>,
      <<(<<"[", "1", " ", "2", "]">>), 2>>,
      <<(<<"[", "]">>), 1>> }

Batches ==
    {<<p>> : p \in RichPairs}
        \cup UNION {[1..n -> SamplePairs] : n \in 0..MaxBatch}

\* ------------------------------------------------------------------ Init
Init ==
    /\ responses = <<>> /\ num_passages = <<>> /\ verbose = FALSE
    /\ stats_dict = EmptyStats /\ normalized_stats_dict = NoReport
    /\ idx = 1 /\ pc = "idle" /\ exc = "none" /\ stdout = <<>>
    /\ call = 0 /\ first = None
    /\ prompt = None /\ search_text = <<>> /\ msg_i = 1
    /\ gpc = "idle" /\ gret = None /\ gexc = "none"
    /\ runs = <<>> /\ cursor = 1 /\ r_responses = <<>> /\ r_num_passages = <<>>
    /\ rpc = "idle" /\ rret = None /\ rexc = "none"

\* ---------------------------------------------------------- count_errors
\* mutant: stats_dict lives outside the function and is not rebuilt
Enter_keepstats(resps, nums, v) ==
    /\ responses' = resps /\ num_passages' = nums /\ verbose' = v
    /\ stats_dict' = stats_dict
    /\ normalized_stats_dict' = NoReport
    /\ idx' = 1 /\ pc' = "loop" /\ exc' = "none" /\ stdout' = <<>>

\* entry of count_errors: the arguments are bound and stats_dict is built
Enter(resps, nums, v) ==
    /\ responses' = resps /\ num_passages' = nums /\ verbose' = v
    /\ stats_dict' = EmptyStats
    /\ normalized_stats_dict' = NoReport
    /\ idx' = 1 /\ pc' = "loop" /\ exc' = "none" /\ stdout' = <<>>

\* the caller's first call, on any batch
Call ==
    /\ pc = "idle" /\ call = 0
    /\ \E b \in Batches, v \in BOOLEAN :
          Enter([i \in 1..Len(b) |-> b[i][1]], [i \in 1..Len(b) |-> b[i][2]], v)
    /\ call' = 1
    /\ UNCHANGED <<first, gvars, rvars>>

\* the caller's second call, on the same pairs in any order
CallAgain ==
    /\ pc \in {"returned", "raised"} /\ call = 1
    /\ \E f \in Permutations(1..Len(responses)), v \in BOOLEAN :
          Enter([i \in 1..Len(responses) |-> responses[f[i]]],
                [i \in 1..Len(responses) |-> num_passages[f[i]]], v)
    /\ call' = 2
    /\ first' = [exc |-> exc, report |-> normalized_stats_dict, verbose |-> verbose,
                  head |-> IF responses = <<>> THEN None ELSE responses[1]]
    /\ UNCHANGED <<gvars, rvars>>

InLoop == pc = "loop" /\ idx <= Len(responses)

resp == responses[idx]

num_passage == num_passages[idx]

\* continue: the next pair of the zip
Continue(key, printed) ==
    /\ stats_dict' = Bump(stats_dict, key)
    /\ stdout' = IF verbose /\ printed # None THEN Append(stdout, printed) ELSE stdout
    /\ idx' = idx + 1
    /\ UNCHANGED <<responses, num_passages, verbose, normalized_stats_dict,
                   pc, exc, call, first, gvars, rvars>>

Raise(e) ==
    /\ pc' = "raised" /\ exc' = e
    /\ UNCHANGED <<responses, num_passages, verbose, stats_dict,
                   normalized_stats_dict, idx, stdout, call, first, gvars, rvars>>

GateFail ==
    /\ InLoop
    /\ ~ValidateFormat(resp)
    /\ Continue("wrong_format", GateFailPrinted(resp))

TrimRaise ==
    /\ InLoop
    /\ ValidateFormat(resp)
    /\ ScanBegin(resp, 0) = NoIndex
    /\ Raise("IndexError")

Parsed == InLoop /\ ValidateFormat(resp) /\ ScanBegin(resp, 0) # NoIndex

ParseFail ==
    /\ Parsed
    /\ ParseFails(resp)
    /\ Continue("wrong_format", ParseFailPrinted(resp))

Missing ==
    /\ Parsed
    /\ ~ParseFails(resp)
    /\ IsMissing(Ranks(resp), num_passage)
    /\ Continue("missing_documents", None)

Repetition ==
    /\ Parsed
    /\ ~ParseFails(resp)
    /\ ~IsMissing(Ranks(resp), num_passage)
    /\ IsRepetition(Ranks(resp), num_passage)
    /\ Continue("repetition", None)

Ok ==
    /\ Parsed
    /\ ~ParseFails(resp)
    /\ ~IsMissing(Ranks(resp), num_passage)
    /\ ~IsRepetition(Ranks(resp), num_passage)
    /\ Continue("ok", None)

LoopDone == pc = "loop" /\ idx > Len(responses)

Normalize ==
    /\ LoopDone
    /\ Len(responses) # 0
    /\ normalized_stats_dict' = Normalized(stats_dict, Len(responses))
    /\ pc' = "returned"
    /\ UNCHANGED <<responses, num_passages, verbose, stats_dict, idx, exc,
                   stdout, call, first, gvars, rvars>>

\* stats_dict[key] / len(responses) with an empty batch
NormalizeZeroDiv ==
    /\ LoopDone
    /\ Len(responses) = 0
    /\ Raise("ZeroDivisionError")

Next ==
    \/ Call \/ CallAgain
    \/ GateFail \/ TrimRaise \/ ParseFail \/ Missing \/ Repetition \/ Ok
    \/ Normalize \/ NormalizeZeroDiv

Spec == Init /\ [][Next]_vars

\* ------------------------------------------------------ _get_num_passages
\* The two literals of the regex are single elements of a prompt's text.
Lead == "I will provide you with "

Trail == " passages"

\* the elements of the exhaustive prompt texts ("0" and "x", any other
\* character, occur in the sample prompts)
RichPromptChars == {Lead, Trail, "1", "2"}

StrPrompt(text) == [type |-> "str", text |-> text]

Message(content) == [role |-> "user", content |-> content]

ListPrompt(messages) == [type |-> "list", messages |-> messages]

\* a prompt that is neither a str nor a list (a number, a dict, null)
OtherPrompt == [type |-> "other"]

\* mutant: the content is put in front of the text collected so far
AppendContent_front(text, message) == message.content \o text

\* search_text += message["content"]
AppendContent(text, message) == text \o message.content

\* the end of the longest run of \d from position j (greedy \d+); giving back
\* digits never helps, since " passages" must follow and is not a digit
RECURSIVE DigitsEnd(_, _)
DigitsEnd(text, j) ==
    IF j + 1 <= Len(text) /\ IsDecimal(text[j + 1]) THEN DigitsEnd(text, j + 1) ELSE j

\* the regex matches with its first character at position i
MatchAt(text, i) ==
    /\ text[i] = Lead
    /\ i + 1 <= Len(text) /\ IsDecimal(text[i + 1])
    /\ LET e == DigitsEnd(text, i + 1) IN e + 1 <= Len(text) /\ text[e + 1] = Trail

NoMatch == <<>>

\* re.search: the start positions are tried from the left; the value is
\* match.group(2), or NoMatch
RECURSIVE SearchFrom(_, _)
SearchFrom(text, i) ==
    IF i > Len(text) THEN NoMatch
    ELSE IF MatchAt(text, i) THEN SubSeq(text, i + 1, DigitsEnd(text, i + 1))
    ELSE SearchFrom(text, i + 1)

ReSearch(text) == SearchFrom(text, 1)

\* mutant: no match yields a default count instead of an exception
GRaise_default(e) ==
    /\ gpc' = "returned" /\ gret' = 0
    /\ UNCHANGED <<prompt, search_text, msg_i, gexc>>

\* raise ValueError(...)
GRaise(e) ==
    /\ gpc' = "raised" /\ gexc' = e
    /\ UNCHANGED <<prompt, search_text, msg_i, gret>>

\* entry of _get_num_passages: search_text = ""
GEnter(p) ==
    /\ prompt' = p /\ search_text' = <<>> /\ msg_i' = 1
    /\ gpc' = "entry" /\ gret' = None /\ gexc' = "none"

\* if type(prompt) == str: search_text = prompt
GStr ==
    /\ gpc = "entry" /\ prompt.type = "str"
    /\ search_text' = prompt.text
    /\ gpc' = "search"
    /\ UNCHANGED <<prompt, msg_i, gret, gexc, cvars, rvars>>

\* elif type(prompt) == list: one turn of the loop over the messages
GConcat ==
    /\ gpc = "entry" /\ prompt.type = "list"
    /\ msg_i <= Len(prompt.messages)
    /\ search_text' = AppendContent(search_text, prompt.messages[msg_i])
    /\ msg_i' = msg_i + 1
    /\ UNCHANGED <<prompt, gpc, gret, gexc, cvars, rvars>>

\* else: raise ValueError
GUnsupported ==
    /\ gpc = "entry" /\ prompt.type \notin {"str", "list"}
    /\ GRaise("ValueError")
    /\ UNCHANGED <<cvars, rvars>>

AtSearch ==
    \/ gpc = "search"
    \/ gpc = "entry" /\ prompt.type = "list" /\ msg_i > Len(prompt.messages)

\* if not match: raise ValueError
GNoMatch ==
    /\ AtSearch
    /\ ReSearch(search_text) = NoMatch
    /\ GRaise("ValueError")
    /\ UNCHANGED <<cvars, rvars>>

\* return int(match.group(2))
GMatch ==
    /\ AtSearch
    /\ ReSearch(search_text) # NoMatch
    /\ gret' = Decimal(ReSearch(search_text))
    /\ gpc' = "returned"
    /\ UNCHANGED <<prompt, search_text, msg_i, gexc, cvars, rvars>>

GSteps == GStr \/ GConcat \/ GUnsupported \/ GNoMatch \/ GMatch

RECURSIVE Texts(_)
Texts(n) ==
    IF n = 0 THEN {<<>>}
    ELSE LET T == Texts(n - 1) IN T \cup {Append(t, c) : t \in T, c \in RichPromptChars}

\* a text as a str, as a list of one message and as a list of two messages
\* cut at any place; the empty list; a value that is no prompt
PromptsOf(t) ==
    {StrPrompt(t), ListPrompt(<<Message(t)>>), ListPrompt(<<>>), OtherPrompt}
        \cup {ListPrompt(<<Message(SubSeq(t, 1, c)), Message(SubSeq(t, c + 1, Len(t)))>>) :
                 c \in 0..Len(t)}

\* a call of _get_num_passages on any prompt of at most MaxLen elements
GCall ==
    /\ gpc = "idle" /\ rpc = "idle" /\ pc = "idle"
    /\ \E t \in Texts(MaxLen) : \E p \in PromptsOf(t) : GEnter(p)
    /\ UNCHANGED <<cvars, rvars>>

NextPrompt == GCall \/ GSteps

SpecPrompt == Init /\ [][NextPrompt]_vars

\* --------------------------------------------------- read_saved_responses
\* The loops over the files, the summaries of a file and the records of a
\* summary visit the records in one order; runs is the records in that order.
Run(p, r) == [prompt |-> p, response |-> r]

SampleRuns ==
    { Run(StrPrompt(<<"x", Lead, "1", "0", Trail>>), <<"[", "1", "]">>),
      Run(StrPrompt(<<Lead, "x", Trail>>), <<"[", "2", "]">>),
      Run(ListPrompt(<<Message(<<"x", Lead>>), Message(<<"2", Trail>>)>>), <<"a">>),
      Run(ListPrompt(<<Message(<<"x">>)>>), <<"[", "]">>),
      Run(OtherPrompt, <<"1">>) }

\* read_saved_responses is called on files holding any records
RCall ==
    /\ rpc = "idle" /\ gpc = "idle" /\ pc = "idle"
    /\ \E rs \in UNION {[1..n -> SampleRuns] : n \in 0..MaxRuns} : runs' = rs
    /\ cursor' = 1 /\ r_responses' = <<>> /\ r_num_passages' = <<>>
    /\ rpc' = "append" /\ rret' = None /\ rexc' = "none"
    /\ UNCHANGED <<cvars, gvars>>

exec_info == runs[cursor]

\* responses.append(exec_info["response"])
RAppendResponse ==
    /\ rpc = "append" /\ cursor <= Len(runs)
    /\ r_responses' = Append(r_responses, exec_info.response)
    /\ rpc' = "extract"
    /\ UNCHANGED <<runs, cursor, r_num_passages, rret, rexc, cvars, gvars>>

\* num_passage = self._get_num_passages(exec_info["prompt"]): the call
RExtractCall ==
    /\ rpc = "extract" /\ gpc = "idle"
    /\ GEnter(exec_info.prompt)
    /\ UNCHANGED <<cvars, rvars>>

\* the call returned: num_passages.append(int(num_passage))
RAppendCount ==
    /\ rpc = "extract" /\ gpc = "returned"
    /\ r_num_passages' = Append(r_num_passages, gret)
    /\ cursor' = cursor + 1
    /\ rpc' = "append"
    /\ gpc' = "idle"
    /\ UNCHANGED <<runs, r_responses, rret, rexc, prompt, search_text, msg_i,
                   gret, gexc, cvars>>

\* the call raised: nothing catches it, it leaves read_saved_responses
RPropagate ==
    /\ rpc = "extract" /\ gpc = "raised"
    /\ rpc' = "raised" /\ rexc' = gexc
    /\ UNCHANGED <<runs, cursor, r_responses, r_num_passages, rret, cvars, gvars>>

\* return responses, num_passages
RReturn ==
    /\ rpc = "append" /\ cursor > Len(runs)
    /\ rret' = <<r_responses, r_num_passages>>
    /\ rpc' = "returned"
    /\ UNCHANGED <<runs, cursor, r_responses, r_num_passages, rexc, cvars, gvars>>

NextRead ==
    \/ RCall \/ RAppendResponse \/ RExtractCall \/ RAppendCount \/ RPropagate
    \/ RReturn
    \/ GSteps

SpecRead == Init /\ [][NextRead]_vars

\* ======================================================================
\* Properties of count_errors (checked under Spec)
\* ======================================================================

\* the characters the specification's gate admits
AllowedChars == {"0", "1", "2", "[", "]", ">", " "}

HasForeignChar(r) == \E i \in 1..Len(r) : r[i] \notin AllowedChars

HasDigit(r) == \E i \in 1..Len(r) : IsDigit(r[i])

\* the response passes the gate and every token parses as an integer
AllParse(r) == ValidateFormat(r) /\ HasDigit(r) /\ ~ParseFails(r)

NumRanks(r) == Len(Ranks(r))

NumDistinct(r) == Cardinality(RankSet(Ranks(r)))

Terminal == pc \in {"returned", "raised"}

Total(stats) ==
    stats["ok"] + stats["wrong_format"] + stats["repetition"] + stats["missing_documents"]

\* the outcome of one pair as a function of the pair alone
Outcome(r, k) ==
    IF ~ValidateFormat(r) THEN "wrong_format"
    ELSE IF ~HasDigit(r) THEN "IndexError"
    ELSE IF ParseFails(r) THEN "wrong_format"
    ELSE IF NumRanks(r) < k THEN "missing_documents"
    ELSE IF NumRanks(r) > k \/ NumDistinct(r) < k THEN "repetition"
    ELSE "ok"

\* the counts of the first n pairs of the batch, each classified on its own
RECURSIVE CountsOf(_)
CountsOf(n) ==
    IF n = 0 THEN EmptyStats
    ELSE Bump(CountsOf(n - 1), Outcome(responses[n], num_passages[n]))

\* C1: a response that passes the gate and whose tokens all parse is counted
\* missing_documents if n < K, else repetition if n > K or d < K, else ok
\* (n parsed ranks, d distinct values, K the expected count).
C1_Precedence ==
    [][(InLoop /\ AllParse(resp)) =>
          LET n == NumRanks(resp)
              d == NumDistinct(resp)
              K == num_passage
              expected == IF n < K THEN "missing_documents"
                          ELSE IF n > K \/ d < K THEN "repetition"
                          ELSE "ok"
          IN  stats_dict' = Bump(stats_dict, expected)]_vars

\* an undersupplied response with a duplicate was counted missing_documents
C1_Witness ==
    /\ call = 1 /\ pc = "returned" /\ Len(responses) = 1
    /\ AllParse(responses[1])
    /\ NumRanks(responses[1]) < num_passages[1]
    /\ NumDistinct(responses[1]) < NumRanks(responses[1])
    /\ stats_dict["missing_documents"] = 1

C3_NeverRaises ==
    /\ exc # "IndexError"
    /\ pc = "loop" => Total(stats_dict) = idx - 1

\* C4 (as claimed): a response is counted ok only if its parsed ranks are
\* exactly 1..K, each once.
C4_OkOnlyPermutation ==
    [][(InLoop /\ stats_dict'["ok"] = stats_dict["ok"] + 1) =>
          /\ AllParse(resp)
          /\ NumRanks(resp) = num_passage
          /\ RankSet(Ranks(resp)) = 1..num_passage]_vars

\* C4 (amended): a response is counted ok only if it passes the gate, all
\* its tokens parse, and it has exactly K ranks with K distinct values.
C4_OkOnlyDistinctK ==
    [][(InLoop /\ stats_dict'["ok"] = stats_dict["ok"] + 1) =>
          /\ AllParse(resp)
          /\ NumRanks(resp) = num_passage
          /\ NumDistinct(resp) = num_passage]_vars

\* K distinct ranks that are not 1..K were counted ok
C4_Witness ==
    /\ call = 1 /\ pc = "returned" /\ Len(responses) = 1
    /\ stats_dict["ok"] = 1
    /\ num_passages[1] = 2
    /\ RankSet(Ranks(responses[1])) # 1..2

\* C5 (as claimed): an empty batch is rejected by a configuration error
\* before any arithmetic, never by a division by zero, and no report is
\* returned.
C5_EmptyBatchRejected ==
    (call # 0 /\ responses = <<>>) =>
        /\ pc # "returned"
        /\ exc # "ZeroDivisionError"
        /\ pc = "raised" => exc = "ConfigurationError"

C7_OrderAndRepeat ==
    /\ (call = 2 /\ Terminal) =>
          /\ exc = first.exc
          /\ normalized_stats_dict = first.report
    /\ pc = "loop" => stats_dict = CountsOf(idx - 1)

\* a second call on a reordered batch of different outcomes returned
C7_Witness ==
    /\ call = 2 /\ pc = "returned" /\ Len(responses) = 3
    /\ responses[1] # first.head
    /\ verbose # first.verbose
    /\ normalized_stats_dict["ok"] = 3333
    /\ normalized_stats_dict["missing_documents"] = 3333

\* the raw wrong_format responses among the first n of the batch
RECURSIVE RawWrongFormat(_)
RawWrongFormat(n) ==
    IF n = 0 THEN <<>>
    ELSE IF Outcome(responses[n], num_passages[n]) = "wrong_format"
         THEN Append(RawWrongFormat(n - 1), responses[n])
         ELSE RawWrongFormat(n - 1)

\* C10 (as claimed): with verbose, what has been printed is exactly the raw
\* text of every wrong_format response processed so far, and nothing else;
\* without verbose nothing is printed.
C10_PrintsRaw ==
    pc \in {"loop", "returned"} =>
        stdout = IF verbose THEN RawWrongFormat(idx - 1) ELSE <<>>

\* ======================================================================
\* Properties of _get_num_passages (SpecPrompt) and of
\* read_saved_responses (SpecRead)
\* ======================================================================

\* the contents of the messages, joined in order
RECURSIVE Joined(_)
Joined(messages) ==
    IF messages = <<>> THEN <<>> ELSE Head(messages).content \o Joined(Tail(messages))

FullText(p) == IF p.type = "str" THEN p.text ELSE Joined(p.messages)

\* the places after position i where " passages" closes a run of digits
\* that starts right after i
Closings(text, i) ==
    {j \in (i + 2)..Len(text) :
        text[j] = Trail /\ \A k \in (i + 1)..(j - 1) : IsDecimal(text[k])}

\* "I will provide you with N passages" occurs in text from position i
Occurrences(text) ==
    {i \in 1..Len(text) : text[i] = Lead /\ Closings(text, i) # {}}

CountAt(text, i) == Decimal(SubSeq(text, i + 1, SetMin(Closings(text, i)) - 1))

LeftmostCount(text) == CountAt(text, SetMin(Occurrences(text)))

\* the prompt is no str and no list, or its text holds no phrase
BadPrompt(p) ==
    p.type \notin {"str", "list"} \/ Occurrences(FullText(p)) = {}

\* C8: _get_num_passages returns the N of the leftmost occurrence of the
\* phrase in the prompt's text, the text of a list of messages being their
\* contents joined in order; so a str and a list with the same text give the
\* same N.
C8_LeftmostCount ==
    /\ gpc = "returned" =>
          /\ ~BadPrompt(prompt)
          /\ gret = LeftmostCount(FullText(prompt))
    /\ gpc = "raised" => BadPrompt(prompt)

\* a list of two messages was searched whose first phrase starts in the first
\* message and ends in the second, with a second phrase of another N behind
C8_Witness ==
    /\ gpc = "returned" /\ prompt.type = "list"
    /\ Len(prompt.messages) = 2
    /\ prompt.messages[1].content = <<Lead>>
    /\ LET occ == Occurrences(search_text) IN
          /\ Cardinality(occ) = 2
          /\ \E i \in occ : CountAt(search_text, i) # gret

\* C9: _get_num_passages fails with an error, and gives no count, exactly
\* when the prompt is no str and no list or holds no phrase; the error
\* leaves read_saved_responses, which then returns nothing and has appended
\* no count for that run; and whenever read_saved_responses returns, the two
\* lists are as long as the records read, the i-th response is the i-th
\* record's and the i-th count is the one of the i-th record's prompt.
C9_ErrorPropagates ==
    /\ gpc = "raised" => gexc = "ValueError" /\ gret = None /\ BadPrompt(prompt)
    /\ gpc = "returned" => ~BadPrompt(prompt)
    /\ rpc = "raised" =>
          /\ rexc = "ValueError" /\ rret = None
          /\ BadPrompt(runs[cursor].prompt)
          /\ Len(r_num_passages) = cursor - 1
    /\ rpc = "returned" =>
          /\ Len(rret[1]) = Len(runs) /\ Len(rret[2]) = Len(runs)
          /\ \A i \in 1..Len(runs) :
                /\ rret[1][i] = runs[i].response
                /\ ~BadPrompt(runs[i].prompt)
                /\ rret[2][i] = LeftmostCount(FullText(runs[i].prompt))

\* the second record's prompt, a list without the phrase, ended the read
C9_Witness ==
    /\ rpc = "raised" /\ cursor = 2
    /\ runs[2].prompt.type = "list"
    /\ Len(r_responses) = 2 /\ Len(r_num_passages) = 1

====
